---------------------------- MODULE Spec2Model ----------------------------
(***************************************************************************)
(* VAPID key store and authorization header of go-webpush (src/vapid.go).  *)
(*                                                                         *)
(* Representation.                                                         *)
(*   - A byte string ([]byte) is a sequence of numbers 0..255.             *)
(*   - A big.Int is its big-endian byte string without leading zero bytes  *)
(*     (what big.Int.Bytes returns); zero is << >>.                        *)
(*   - A base64url string is the sequence of its characters, each written  *)
(*     as its index 0..63 in the URL-safe alphabet; BadChar is a character *)
(*     outside the alphabet and NewLine is '\n', which Go's decoder skips. *)
(*   - Other text (endpoint, subscriber) is a sequence of one-character    *)
(*     strings.                                                            *)
(*   - A point k.G of a prime-order curve is written as the number k       *)
(*     reduced modulo the group order (the map k |-> k.G is a bijection    *)
(*     from Z_n onto the group); the point at infinity is 0.  Affine       *)
(*     coordinates are not computed: in the 65-byte uncompressed encoding  *)
(*     04 || X || Y the two coordinates are stood in for by the 32-byte    *)
(*     form of k, an injective renaming of the real encoding.              *)
(***************************************************************************)
EXTENDS Integers, Sequences, FiniteSets, TLC

VARIABLES
    stores,     \* slot -> VAPIDKeys value held by the caller (NoKeys: the zero value)
    last,       \* the last call made: its operation, inputs and results
    main        \* the example program: where it is, its variables and the two key files

vars == <<stores, last, main>>

-----------------------------------------------------------------------------
(* Bounds of the model *)

MaxStores == 2          \* key store objects the caller holds
MaxEndpointLen == 3     \* longest endpoint enumerated over EndpointAlphabet

-----------------------------------------------------------------------------
(* Byte strings and big integers *)

Zeros(n) == [i \in 1..n |-> 0]

RECURSIVE StripZeros(_)
\* big.Int.SetBytes: the value of a big-endian byte string
StripZeros(b) ==
    IF b = << >> THEN << >>
    ELSE IF Head(b) = 0 THEN StripZeros(Tail(b)) ELSE b

SetBytes(b) == StripZeros(b)

\* big.Int.FillBytes / the copy into a zeroed buffer: n-byte big-endian form
FillBytes(x, n) == Zeros(n - Len(x)) \o x

RECURSIVE LexLess(_, _)
\* a < b for byte strings of one length
LexLess(a, b) ==
    IF a = << >> THEN FALSE
    ELSE IF Head(a) # Head(b) THEN Head(a) < Head(b)
    ELSE LexLess(Tail(a), Tail(b))

\* big.Int.Cmp(a, b) < 0
BigLess(a, b) ==
    IF Len(a) # Len(b) THEN Len(a) < Len(b) ELSE LexLess(a, b)

RECURSIVE SubBytes(_, _, _)
\* a - b - borrow for byte strings of one length with a >= b + borrow
SubBytes(a, b, borrow) ==
    IF a = << >> THEN << >>
    ELSE LET n == Len(a)
             d == a[n] - b[n] - borrow
         IN  SubBytes(SubSeq(a, 1, n - 1), SubSeq(b, 1, n - 1), IF d < 0 THEN 1 ELSE 0)
                \o << IF d < 0 THEN d + 256 ELSE d >>

\* a - b for big integers a >= b
BigSub(a, b) == StripZeros(SubBytes(a, FillBytes(b, Len(a)), 0))

-----------------------------------------------------------------------------
(* The curves *)

\* order of the P-256 base point
P256Order ==
    << 255, 255, 255, 255, 0, 0, 0, 0, 255, 255, 255, 255, 255, 255, 255, 255,
       188, 230, 250, 173, 167, 23, 158, 132, 243, 185, 202, 194, 252, 99, 37, 81 >>

\* order of the P-384 base point
P384Order ==
    << 255, 255, 255, 255, 255, 255, 255, 255, 255, 255, 255, 255,
       255, 255, 255, 255, 255, 255, 255, 255, 255, 255, 255, 255,
       199, 99, 77, 129, 244, 55, 45, 223, 88, 26, 13, 178,
       72, 176, 167, 122, 236, 236, 25, 106, 204, 197, 41, 115 >>

OrderOf(curve) == IF curve = "P-256" THEN P256Order ELSE P384Order

\* byte length of a scalar of the curve: (N.BitLen() + 7) / 8
ByteSize(curve) == Len(OrderOf(curve))

\* a byte string of ByteSize(curve) bytes reduced modulo the order
\* (one conditional subtraction: 2^(8*size) < 2 * order for both curves)
OrdReduce(curve, k) ==
    IF BigLess(k, OrderOf(curve)) THEN k ELSE BigSub(k, OrderOf(curve))

\* curve.ScalarBaseMult(scalar) for a scalar of ByteSize(curve) bytes: the
\* point scalar.G, the point at infinity (0, 0) when the scalar is 0 mod n
ScalarBaseMult(curve, scalar) == OrdReduce(curve, SetBytes(scalar))

\* curve.IsOnCurve(X, Y): (0, 0) is not on the curve
IsOnCurve(Q) == Q # << >>

\* 0 < d < order
ValidScalar(curve, d) == d # << >> /\ BigLess(d, OrderOf(curve))

-----------------------------------------------------------------------------
(* base64.RawURLEncoding *)

KeySize == 32           \* bytes of the serialized private scalar
BadChar == 64           \* a character outside the base64url alphabet
NewLine == 65           \* '\r' or '\n': skipped by the decoder

RECURSIVE EncodeToString(_)
\* base64.RawURLEncoding.EncodeToString: 3 bytes -> 4 characters, no padding
EncodeToString(b) ==
    IF Len(b) = 0 THEN << >>
    ELSE IF Len(b) = 1 THEN << b[1] \div 4, (b[1] % 4) * 16 >>
    ELSE IF Len(b) = 2 THEN
        << b[1] \div 4, (b[1] % 4) * 16 + b[2] \div 16, (b[2] % 16) * 4 >>
    ELSE << b[1] \div 4,
            (b[1] % 4) * 16 + b[2] \div 16,
            (b[2] % 16) * 4 + b[3] \div 64,
            b[3] % 64 >> \o EncodeToString(SubSeq(b, 4, Len(b)))

RECURSIVE DecodeQuanta(_)
\* the bytes of a string of alphabet characters whose length is not 1 mod 4;
\* the unused low bits of a final partial quantum are dropped
DecodeQuanta(c) ==
    IF Len(c) < 2 THEN << >>
    ELSE IF Len(c) = 2 THEN << c[1] * 4 + c[2] \div 16 >>
    ELSE IF Len(c) = 3 THEN
        << c[1] * 4 + c[2] \div 16, (c[2] % 16) * 16 + c[3] \div 4 >>
    ELSE << c[1] * 4 + c[2] \div 16,
            (c[2] % 16) * 16 + c[3] \div 4,
            (c[3] % 4) * 64 + c[4] >> \o DecodeQuanta(SubSeq(c, 5, Len(c)))

\* base64.RawURLEncoding.DecodeString
DecodeString(s) ==
    LET c == SelectSeq(s, LAMBDA x : x # NewLine)
    IN  IF (\E i \in 1..Len(c) : c[i] = BadChar) \/ Len(c) % 4 = 1
        THEN [ok |-> FALSE, bytes |-> << >>]
        ELSE [ok |-> TRUE, bytes |-> DecodeQuanta(c)]

-----------------------------------------------------------------------------
(* Keys *)

\* a nil *ecdsa.PrivateKey
NilKey == [Curve |-> "nil", Q |-> << >>, D |-> << >>]

\* the zero value of VAPIDKeys (new(VAPIDKeys), var v VAPIDKeys)
NoKeys == [privateKey |-> NilKey, publicKey |-> << >>]

Constructed(v) == v.privateKey # NilKey

\* elliptic.Marshal / ecdh.PublicKey.Bytes: the uncompressed point
UncompressedPoint(curve, Q) ==
    << 4 >> \o FillBytes(Q, ByteSize(curve)) \o FillBytes(Q, ByteSize(curve))

\* the point an uncompressed encoding carries
PointOf(bytes) == SetBytes(SubSeq(bytes, 2, 1 + (Len(bytes) - 1) \div 2))

\* the key pair ecdsa.GenerateKey(curve, rand) returns when it draws d
ECDSAKey(curve, d) == [Curve |-> curve, Q |-> ScalarBaseMult(curve, FillBytes(d, ByteSize(curve))), D |-> d]

\* ecdsa.PrivateKey.Equal: same curve, same public point, same D
ECDSAEqual(a, b) == a.Curve = b.Curve /\ a.Q = b.Q /\ a.D = b.D

\* ecdsa.PublicKey.ECDH fails for a point that is not on the curve
makePublicKeyString(privKey) ==
    IF ~IsOnCurve(privKey.Q)
    THEN [err |-> "ecdsa: invalid public key", result |-> << >>]
    ELSE [err |-> "", result |-> EncodeToString(UncompressedPoint(privKey.Curve, privKey.Q))]

PublicKeyString(v) == v.publicKey

PrivateKey(v) == v.privateKey

\* equality decided on the cached public key strings alone
EqualByPublicKey(v, o) == v.publicKey = o.publicKey

Equal(v, o) == ECDSAEqual(v.privateKey, o.privateKey)

-----------------------------------------------------------------------------
(* JSON form *)

\* a JSON string member of the document: absent, or present with a value
Absent == [present |-> FALSE, val |-> << >>]
Member(s) == [present |-> TRUE, val |-> s]

\* text that is not a JSON object with string members
BadJSON == [valid |-> FALSE, publicKey |-> Absent, privateKey |-> Absent]
JSONObject(pub, priv) == [valid |-> TRUE, publicKey |-> pub, privateKey |-> priv]

\* json.Unmarshal into a string field: an absent member leaves the field ""
FieldOf(member) == IF member.present THEN member.val ELSE << >>

\* the 32-byte buffer the scalar is copied into, without the copy's offset
Unpadded(d) == d

\* lines 56-57: padded := make([]byte, 32); copy(padded[32-len(d):], d)
Padded(d) == FillBytes(d, KeySize)

MarshalJSON(v) ==
    IF ~Constructed(v) THEN [err |-> "vapid keys are nil", out |-> BadJSON]
    ELSE LET d == v.privateKey.D IN
         IF Len(d) > KeySize THEN [err |-> "invalid private key size", out |-> BadJSON]
         ELSE [err |-> "",
               out |-> JSONObject(Member(v.publicKey),
                                  Member(EncodeToString(Padded(d))))]

\* a length check that lets shorter scalars through
LengthAtMostKeySize(privBytes) == Len(privBytes) <= KeySize

\* line 88: len(privBytes) != 32 is an error
PrivateKeyLengthOK(privBytes) == Len(privBytes) = KeySize

\* the doc comment's "PublicKey is ignored if present"
PublicKeyIgnored(objPublicKey, pubStr) == TRUE

\* line 103: a non-empty publicKey must be the recomputed string
PublicKeyAccepted(objPublicKey, pubStr) ==
    ~(objPublicKey # << >> /\ objPublicKey # pubStr)

\* the fields assigned before the publicKey is compared
AssignedBeforeCheck(v, priv, pubStr) == [privateKey |-> priv, publicKey |-> pubStr]

\* lines 103-105: the mismatch returns before v is assigned
KeysOnMismatch(v, priv, pubStr) == v

\* the key store v after UnmarshalJSON(doc), and the error returned
UnmarshalJSON(v, doc) ==
    IF ~doc.valid THEN [err |-> "json", keys |-> v]
    ELSE LET objPublicKey == FieldOf(doc.publicKey)
             objPrivateKey == FieldOf(doc.privateKey)
             dec == DecodeString(objPrivateKey)
             privBytes == dec.bytes
             priv == [Curve |-> "P-256",
                      Q |-> ScalarBaseMult("P-256", privBytes),
                      D |-> SetBytes(privBytes)]
             pub == makePublicKeyString(priv)
         IN  IF objPrivateKey = << >> THEN [err |-> "privateKey is required", keys |-> v]
             ELSE IF ~dec.ok THEN [err |-> "invalid privateKey encoding", keys |-> v]
             ELSE IF ~PrivateKeyLengthOK(privBytes)
                  THEN [err |-> "invalid privateKey length", keys |-> v]
             ELSE IF pub.err # "" THEN [err |-> pub.err, keys |-> v]
             ELSE IF ~PublicKeyAccepted(objPublicKey, pub.result)
                  THEN [err |-> "publicKey does not match privateKey",
                        keys |-> KeysOnMismatch(v, priv, pub.result)]
             ELSE [err |-> "", keys |-> [privateKey |-> priv, publicKey |-> pub.result]]

-----------------------------------------------------------------------------
(* Constructors *)

\* GenerateVAPIDKeys when the entropy source works (randOK) and draws d
GenerateVAPIDKeys(randOK, d) ==
    IF ~randOK THEN [err |-> "rand", result |-> NoKeys]
    ELSE LET private == ECDSAKey("P-256", d)
         IN  IF ~IsOnCurve(private.Q) THEN [err |-> "ecdsa: invalid public key", result |-> NoKeys]
             ELSE [err |-> "",
                   result |-> [privateKey |-> private,
                               publicKey |-> EncodeToString(UncompressedPoint("P-256", private.Q))]]

\* a curve check that lets every curve through
AnyCurve(privKey) == TRUE

\* lines 132 and 223: privKey.Curve != elliptic.P256() is an error
OnP256(privKey) == privKey.Curve = "P-256"

ECDSAToVAPIDKeys(privKey) ==
    IF ~OnP256(privKey) THEN [err |-> "invalid curve for private key", result |-> NoKeys]
    ELSE LET pub == makePublicKeyString(privKey)
         IN  IF pub.err # "" THEN [err |-> pub.err, result |-> NoKeys]
             ELSE [err |-> "", result |-> [privateKey |-> privKey, publicKey |-> pub.result]]

-----------------------------------------------------------------------------
(* PEM form *)

\* bytes in which pem.Decode finds no block
NotPEM == [block |-> FALSE, der |-> [alg |-> "none"]]
\* a PEM block around DER bytes
PEMBlock(der) == [block |-> TRUE, der |-> der]

\* DER that is no PKCS#8 structure
BadDER == [alg |-> "malformed"]
\* PKCS#8 of a key that is not an elliptic-curve key
OtherKeyDER(alg) == [alg |-> alg]
\* PKCS#8 of an EC private key: the named curve and the scalar's bytes
ECKeyDER(curve, privateKey) == [alg |-> "EC", curve |-> curve, privateKey |-> privateKey]

\* x509.MarshalPKCS8PrivateKey of an ECDSA key
MarshalPKCS8PrivateKey(key) ==
    IF ~IsOnCurve(key.Q) THEN [err |-> "invalid elliptic key public key", der |-> BadDER]
    ELSE [err |-> "", der |-> ECKeyDER(key.Curve, FillBytes(key.D, ByteSize(key.Curve)))]

\* x509.ParsePKCS8PrivateKey: the key and its Go type
ParsePKCS8PrivateKey(der) ==
    IF der.alg = "malformed" THEN [err |-> "x509: malformed", type |-> "none", key |-> NilKey]
    ELSE IF der.alg # "EC" THEN [err |-> "", type |-> der.alg, key |-> NilKey]
    ELSE LET k == SetBytes(der.privateKey)
         IN  IF ~BigLess(k, OrderOf(der.curve))
             THEN [err |-> "x509: invalid elliptic curve private key value",
                   type |-> "none", key |-> NilKey]
             ELSE IF Len(k) > ByteSize(der.curve)
             THEN [err |-> "x509: invalid private key length", type |-> "none", key |-> NilKey]
             ELSE [err |-> "", type |-> "EC",
                   key |-> [Curve |-> der.curve,
                            Q |-> ScalarBaseMult(der.curve, FillBytes(k, ByteSize(der.curve))),
                            D |-> k]]

ExportVAPIDPrivateKeyPEM(v) ==
    IF ~Constructed(v) THEN [err |-> "vapid keys are nil", out |-> NotPEM]
    ELSE LET pkcs8 == MarshalPKCS8PrivateKey(v.privateKey)
         IN  IF pkcs8.err # ""
             THEN [err |-> "could not marshal VAPID keys to PKCS#8", out |-> NotPEM]
             ELSE [err |-> "", out |-> PEMBlock(pkcs8.der)]

LoadVAPIDPrivateKeyPEM(pemBytes) ==
    IF ~pemBytes.block
    THEN [err |-> "could not decode PEM block with VAPID keys", result |-> NoKeys]
    ELSE LET parsed == ParsePKCS8PrivateKey(pemBytes.der)
         IN  IF parsed.err # "" THEN [err |-> parsed.err, result |-> NoKeys]
             ELSE IF parsed.type # "EC"
             THEN [err |-> "invalid type of private key", result |-> NoKeys]
             ELSE IF ~OnP256(parsed.key)
             THEN [err |-> "invalid curve for private key", result |-> NoKeys]
             ELSE LET pub == makePublicKeyString(parsed.key)
                  IN  IF pub.err # "" THEN [err |-> pub.err, result |-> NoKeys]
                      ELSE [err |-> "",
                            result |-> [privateKey |-> parsed.key, publicKey |-> pub.result]]

-----------------------------------------------------------------------------
(* Text *)

HasPrefix(s, prefix) ==
    Len(s) >= Len(prefix) /\ SubSeq(s, 1, Len(prefix)) = prefix

\* strings.Index: position of the first c in s, 0 when there is none
IndexOf(s, c) ==
    IF \E i \in 1..Len(s) : s[i] = c
    THEN CHOOSE i \in 1..Len(s) : s[i] = c /\ \A j \in 1..(i - 1) : s[j] # c
    ELSE 0

\* strings.LastIndex
LastIndexOf(s, c) ==
    IF \E i \in 1..Len(s) : s[i] = c
    THEN CHOOSE i \in 1..Len(s) : s[i] = c /\ \A j \in (i + 1)..Len(s) : s[j] # c
    ELSE 0

Count(s, c) == Cardinality({i \in 1..Len(s) : s[i] = c})

LowerLetters == {"a", "b", "e", "h", "i", "l", "m", "o", "p", "s", "t", "x"}
UpperLetters == {"A", "H", "T", "P", "S"}
Digits == {"1", "4"}

ToLowerChar(c) ==
    CASE c = "A" -> "a" [] c = "H" -> "h" [] c = "T" -> "t"
      [] c = "P" -> "p" [] c = "S" -> "s" [] OTHER -> c

ToLower(s) == [i \in 1..Len(s) |-> ToLowerChar(s[i])]

https == << "h", "t", "t", "p", "s", ":" >>
mailto == << "m", "a", "i", "l", "t", "o", ":" >>

-----------------------------------------------------------------------------
(* net/url.Parse, as far as the characters above reach *)

ParseError(msg) ==
    [err |-> msg, Scheme |-> << >>, Host |-> << >>, Path |-> << >>,
     RawQuery |-> << >>, Opaque |-> << >>]

RECURSIVE getScheme(_, _)
\* the scan of getScheme from position i
getScheme(rawURL, i) ==
    IF i > Len(rawURL) THEN [err |-> "", scheme |-> << >>, rest |-> rawURL]
    ELSE LET c == rawURL[i] IN
         IF c \in LowerLetters \cup UpperLetters THEN getScheme(rawURL, i + 1)
         ELSE IF c \in Digits \cup {"+", "-", "."} THEN
              IF i = 1 THEN [err |-> "", scheme |-> << >>, rest |-> rawURL]
              ELSE getScheme(rawURL, i + 1)
         ELSE IF c = ":" THEN
              IF i = 1 THEN [err |-> "missing protocol scheme", scheme |-> << >>, rest |-> << >>]
              ELSE [err |-> "", scheme |-> SubSeq(rawURL, 1, i - 1),
                    rest |-> SubSeq(rawURL, i + 1, Len(rawURL))]
         ELSE [err |-> "", scheme |-> << >>, rest |-> rawURL]

\* validOptionalPort: "" or ":" followed by digits
validOptionalPort(port) ==
    port = << >> \/ (port[1] = ":" /\ \A i \in 2..Len(port) : port[i] \in Digits)

\* validUserinfo
validUserinfo(s) ==
    \A i \in 1..Len(s) :
        s[i] \in LowerLetters \cup UpperLetters \cup Digits \cup {"-", ".", ":", "+", "*", "@"}

\* parseHost: the port must be digits, and no character may need escaping
parseHost(host) ==
    LET i == LastIndexOf(host, ":") IN
    IF i # 0 /\ ~validOptionalPort(SubSeq(host, i, Len(host)))
    THEN [err |-> "invalid port after host", host |-> << >>]
    ELSE IF \E j \in 1..Len(host) : host[j] = " "
    THEN [err |-> "invalid character in host name", host |-> << >>]
    ELSE [err |-> "", host |-> host]

\* parseAuthority: [userinfo "@"] host
parseAuthority(authority) ==
    LET i == LastIndexOf(authority, "@")
        h == parseHost(SubSeq(authority, i + 1, Len(authority)))
    IN  IF h.err # "" THEN h
        ELSE IF i # 0 /\ ~validUserinfo(SubSeq(authority, 1, i - 1))
        THEN [err |-> "net/url: invalid userinfo", host |-> << >>]
        ELSE h

\* url.Parse(rawURL)
Parse(rawURL) ==
    LET hash == IndexOf(rawURL, "#")
        u == IF hash = 0 THEN rawURL ELSE SubSeq(rawURL, 1, hash - 1)
        sch == getScheme(u, 1)
        scheme == ToLower(sch.scheme)
        r0 == sch.rest
        force == r0 # << >> /\ r0[Len(r0)] = "?" /\ Count(r0, "?") = 1
        q == IndexOf(r0, "?")
        rest == IF force THEN SubSeq(r0, 1, Len(r0) - 1)
                ELSE IF q = 0 THEN r0 ELSE SubSeq(r0, 1, q - 1)
        query == IF force \/ q = 0 THEN << >> ELSE SubSeq(r0, q + 1, Len(r0))
        slash == IndexOf(rest, "/")
        segment == IF slash = 0 THEN rest ELSE SubSeq(rest, 1, slash - 1)
        hasAuthority ==
            /\ scheme # << >> \/ ~HasPrefix(rest, << "/", "/", "/" >>)
            /\ HasPrefix(rest, << "/", "/" >>)
        after == SubSeq(rest, 3, Len(rest))
        cut == IndexOf(after, "/")
        authority == IF cut = 0 THEN after ELSE SubSeq(after, 1, cut - 1)
        path == IF cut = 0 THEN << >> ELSE SubSeq(after, cut, Len(after))
        auth == parseAuthority(authority)
    IN  IF \E i \in 1..Len(u) : u[i] = "\n"
        THEN ParseError("net/url: invalid control character in URL")
        ELSE IF u = << "*" >>
        THEN [err |-> "", Scheme |-> << >>, Host |-> << >>, Path |-> u,
              RawQuery |-> << >>, Opaque |-> << >>]
        ELSE IF sch.err # "" THEN ParseError(sch.err)
        ELSE IF ~HasPrefix(rest, << "/" >>) /\ scheme # << >>
        THEN [err |-> "", Scheme |-> scheme, Host |-> << >>, Path |-> << >>,
              RawQuery |-> query, Opaque |-> rest]
        ELSE IF ~HasPrefix(rest, << "/" >>) /\ IndexOf(segment, ":") # 0
        THEN ParseError("first path segment in URL cannot contain colon")
        ELSE IF hasAuthority
        THEN IF auth.err # "" THEN ParseError(auth.err)
             ELSE [err |-> "", Scheme |-> scheme, Host |-> auth.host, Path |-> path,
                   RawQuery |-> query, Opaque |-> << >>]
        ELSE [err |-> "", Scheme |-> scheme, Host |-> << >>, Path |-> rest,
              RawQuery |-> query, Opaque |-> << >>]

-----------------------------------------------------------------------------
(* The authorization header *)

TwelveHours == 43200    \* time.Hour * 12, in seconds

\* a time.Time: the zero Time (January 1, year 1), or the instant unix seconds
\* after 1970; the zero Time lies before every instant of the model
ZeroTime == [zero |-> TRUE, unix |-> 0 - 2147483647]
UnixTime(sec) == [zero |-> FALSE, unix |-> sec]
\* a test for the zero Time that looks at the seconds since 1970
IsZeroByUnix(t) == t.unix = 0

IsZero(t) == t.zero
Unix(t) == t.unix
AddSeconds(t, d) == [zero |-> FALSE, unix |-> t.unix + d]

\* a normalization that only knows the https: prefix
NormalizeUnlessHTTPS(subscriber) ==
    IF ~HasPrefix(subscriber, https) THEN mailto \o subscriber ELSE subscriber

\* lines 173-175: unless the subscriber is an HTTPS URL, assume an e-mail address
NormalizeSubscriber(subscriber) ==
    IF ~HasPrefix(subscriber, https) /\ ~HasPrefix(subscriber, mailto)
    THEN mailto \o subscriber
    ELSE subscriber

\* an audience that keeps the path of the endpoint
AudienceWithPath(subURL) ==
    subURL.Scheme \o << ":", "/", "/" >> \o subURL.Host \o subURL.Path

\* the aud claim: subURL.Scheme + "://" + subURL.Host
Audience(subURL) == subURL.Scheme \o << ":", "/", "/" >> \o subURL.Host

\* jwt.NewWithClaims(jwt.SigningMethodES256, claims)
NewWithClaims(claims) == [header |-> [alg |-> "ES256", typ |-> "JWT"], claims |-> claims]

NoSignature == [by |-> << >>, over |-> NewWithClaims([aud |-> << >>, exp |-> 0, sub |-> << >>])]

\* token.SignedString(key): an ECDSA signature over the token's header and
\* claims.  A signature made with scalar D is the one that verifies under the
\* point D.G; signing fails (signOK false) when the entropy source fails or
\* the ECDSA implementation rejects the scalar.
SignedString(token, key, signOK) ==
    IF ~signOK THEN [err |-> "sign", jwt |-> [token |-> token, signature |-> NoSignature]]
    ELSE [err |-> "",
          jwt |-> [token |-> token,
                   signature |-> [by |-> OrdReduce(key.Curve, key.D), over |-> token]]]

\* ES256 verification of a signed token under the public point Q
Verifies(jwt, Q) == jwt.signature.by = Q /\ jwt.signature.over = jwt.token

\* a header that carries the serialized scalar in place of the public key
HeaderWithScalar(jwtString, vapidKeys) ==
    [scheme |-> "vapid", t |-> jwtString,
     k |-> EncodeToString(FillBytes(vapidKeys.privateKey.D, KeySize))]

\* line 188: "vapid t=" + jwtString + ", k=" + vapidKeys.publicKey
VAPIDHeader(jwtString, vapidKeys) ==
    [scheme |-> "vapid", t |-> jwtString, k |-> vapidKeys.publicKey]

NoHeader == [scheme |-> "", t |-> [token |-> NewWithClaims([aud |-> << >>, exp |-> 0, sub |-> << >>]),
                                   signature |-> NoSignature],
             k |-> << >>]

\* getVAPIDAuthorizationHeader, called at time now
getVAPIDAuthorizationHeader(endpoint, subscriber, vapidKeys, expiration, now, signOK) ==
    LET exp == IF IsZero(expiration) THEN AddSeconds(now, TwelveHours) ELSE expiration
        subURL == Parse(endpoint)
        token == NewWithClaims([aud |-> Audience(subURL),
                                exp |-> Unix(exp),
                                sub |-> NormalizeSubscriber(subscriber)])
        signed == SignedString(token, vapidKeys.privateKey, signOK)
    IN  IF subURL.err # "" THEN [err |-> subURL.err, header |-> NoHeader]
        ELSE IF signed.err # "" THEN [err |-> signed.err, header |-> NoHeader]
        ELSE [err |-> "", header |-> VAPIDHeader(signed.jwt, vapidKeys)]

-----------------------------------------------------------------------------
(* Inputs *)

Slots == 1..MaxStores

\* scalars: n - 1, n and n + 1 for the P-256 order n, and 2^256 - 1
OrderMinus1 == [P256Order EXCEPT ![KeySize] = 80]
OrderPlus1 == [P256Order EXCEPT ![KeySize] = 82]
AllOnes == [i \in 1..KeySize |-> 255]

\* scalars ecdsa.GenerateKey can draw (1 <= d < n); << 1 >> and << 1, 0 >>
\* have 31 and 30 leading zero bytes in 32-byte form
GenScalars == { << 1 >>, << 1, 0 >>, OrderMinus1 }

\* 32-byte strings offered as the serialized scalar
ScalarBytes ==
    { FillBytes(d, KeySize) : d \in GenScalars \cup { << >>, P256Order, OrderPlus1, AllOnes } }

PublicKeyOf(d) == EncodeToString(UncompressedPoint("P-256", ScalarBaseMult("P-256", FillBytes(d, KeySize))))

\* privateKey members of an input document
PrivateKeyMembers ==
    { Absent, Member(<< >>), Member(<< BadChar, BadChar >>), Member(<< NewLine >>),
      Member(<< 0 >>),
      Member(EncodeToString(<< 1, 2 >>)),
      Member(EncodeToString([i \in 1..(KeySize - 1) |-> 7])),
      Member(EncodeToString([i \in 1..(KeySize + 1) |-> 7])),
      Member(<< NewLine >> \o EncodeToString(FillBytes(<< 1, 0 >>, KeySize))) }
    \cup { Member(EncodeToString(b)) : b \in ScalarBytes }

\* publicKey members of an input document
PublicKeyMembers ==
    { Absent, Member(<< >>), Member([i \in 1..43 |-> 0]),
      Member(PublicKeyOf(<< 1 >>) \o << NewLine >>) }
    \cup { Member(PublicKeyOf(d)) : d \in GenScalars }

JSONDocs ==
    { BadJSON } \cup { JSONObject(pub, priv) : pub \in PublicKeyMembers, priv \in PrivateKeyMembers }

PEMInputs ==
    { NotPEM, PEMBlock(BadDER), PEMBlock(OtherKeyDER("RSA")), PEMBlock(OtherKeyDER("Ed25519")),
      PEMBlock(ECKeyDER("P-384", FillBytes(<< 1, 0 >>, ByteSize("P-384")))) }
    \cup { PEMBlock(ECKeyDER("P-256", b)) : b \in ScalarBytes }

\* keys made by ecdsa.GenerateKey on either curve
ECDSAKeys == { ECDSAKey("P-256", d) : d \in GenScalars } \cup { ECDSAKey("P-384", << 1, 0 >>) }

EndpointAlphabet == { "a", ":", "/" }

RECURSIVE StringsUpTo(_)
StringsUpTo(n) ==
    IF n = 0 THEN { << >> }
    ELSE LET shorter == StringsUpTo(n - 1)
         IN  shorter \cup { Append(e, c) : e \in shorter, c \in EndpointAlphabet }

SampleEndpoints ==
    { << "h", "t", "t", "p", "s", ":", "/", "/", "a", ".", "b", "/", "t" >>,
      << ":", "/", "/", " ", "m" >>,
      << "a", ".", "b", "/", "t" >> }

MoreEndpoints ==
    { << "a", ":", "/", "/", "a" >>,
      << "a", ":", "/", "/", "a", "/", "a" >>,
      << "a", ":", "/", "/", "a", "?", "a" >>,
      << "a", ":", "/", "/", "a", "/", "a", "?", "a", "#", "a" >>,
      << "H", "T", "T", "P", "S", ":", "/", "/", "A", "/" >>,
      << "a", ":", "/", "/", "b", "@", "a", ":", "4", "4", "/" >>,
      << "a", ":", "/", "/", "a", " ", "a" >>,
      << "a", ":", "/", "/", "a", ":", "a" >>,
      << "/", "/", "a", "/", "b" >>,
      << "a", ":", "/", "/", "/", "a" >>,
      << "1", "a", ":", "/", "/", "a" >>,
      << "a", "\n" >>,
      << "*" >> }

Endpoints == StringsUpTo(MaxEndpointLen) \cup SampleEndpoints \cup MoreEndpoints

SampleSubscribers ==
    { << "a", "@", "b" >>, << "h", "t", "t", "p", "s", ":", "/", "/", "a" >> }

Subscribers ==
    SampleSubscribers \cup
    { << >>,
      mailto \o << "a", "@", "b" >>,
      << "m", "a", "i", "l", "t", "o" >>,
      << "H", "T", "T", "P", "S", ":", "/", "/", "a" >>,
      << "h", "t", "t", "p", ":", "/", "/", "a" >> }

NowTimes == { UnixTime(1000), UnixTime(1700000000) }

Expirations == { ZeroTime, UnixTime(0), UnixTime(1700000000 + 172800) }

-----------------------------------------------------------------------------
(* The caller: key store objects, and one call at a time *)

Idle == [op |-> "idle", err |-> ""]

\* the example program is not running
NotRunning == [pc |-> "not running"]

Init ==
    /\ stores = [s \in Slots |-> NoKeys]
    /\ last = Idle
    /\ main = NotRunning

\* documents a call to UnmarshalJSON may be given: any input document, or
\* the one MarshalJSON has just returned
DocsOffered ==
    IF last.op = "idle" THEN JSONDocs
    ELSE IF last.op = "MarshalJSON" /\ last.err = "" THEN { last.out }
    ELSE { }

PEMsOffered ==
    IF last.op = "idle" THEN PEMInputs
    ELSE IF last.op = "ExportVAPIDPrivateKeyPEM" /\ last.err = "" THEN { last.out }
    ELSE { }

KeysOffered ==
    IF last.op = "idle" THEN ECDSAKeys
    ELSE IF last.op = "PrivateKey" THEN { last.out }
    ELSE { }

\* the slot whose export the call reads back, 0 for an input of the caller's
SourceSlot == IF last.op = "idle" THEN 0 ELSE last.slot

\* vapidKeys, err := GenerateVAPIDKeys()
Generate(s, randOK, d) ==
    /\ last.op = "idle"
    /\ stores[s] = NoKeys
    /\ UNCHANGED main
    /\ LET r == GenerateVAPIDKeys(randOK, d) IN
        /\ stores' = [stores EXCEPT ![s] = r.result]
        /\ last' = [op |-> "GenerateVAPIDKeys", slot |-> s, err |-> r.err]

\* err := json.Unmarshal(doc, stores[s]), on a zero value or on a constructed key store
Unmarshal(s, doc) ==
    /\ doc \in DocsOffered
    /\ UNCHANGED main
    /\ LET r == UnmarshalJSON(stores[s], doc) IN
        /\ stores' = [stores EXCEPT ![s] = r.keys]
        /\ last' = [op |-> "UnmarshalJSON", slot |-> s, before |-> stores[s], doc |-> doc,
                    src |-> SourceSlot, err |-> r.err]

\* vapidKeys, err := LoadVAPIDPrivateKeyPEM(pemBytes)
Load(s, pemBytes) ==
    /\ pemBytes \in PEMsOffered
    /\ stores[s] = NoKeys
    /\ UNCHANGED main
    /\ LET r == LoadVAPIDPrivateKeyPEM(pemBytes) IN
        /\ stores' = [stores EXCEPT ![s] = r.result]
        /\ last' = [op |-> "LoadVAPIDPrivateKeyPEM", slot |-> s, pem |-> pemBytes,
                    src |-> SourceSlot, err |-> r.err]

\* vapidKeys, err := ECDSAToVAPIDKeys(privKey)
FromECDSA(s, privKey) ==
    /\ privKey \in KeysOffered
    /\ stores[s] = NoKeys
    /\ UNCHANGED main
    /\ LET r == ECDSAToVAPIDKeys(privKey) IN
        /\ stores' = [stores EXCEPT ![s] = r.result]
        /\ last' = [op |-> "ECDSAToVAPIDKeys", slot |-> s, key |-> privKey,
                    src |-> SourceSlot, err |-> r.err]

\* j, err := json.Marshal(stores[s])
Marshal(s) ==
    /\ last.op = "idle"
    /\ LET r == MarshalJSON(stores[s]) IN
        last' = [op |-> "MarshalJSON", slot |-> s, out |-> r.out, err |-> r.err]
    /\ UNCHANGED << stores, main >>

\* pemBytes, err := stores[s].ExportVAPIDPrivateKeyPEM()
Export(s) ==
    /\ last.op = "idle"
    /\ LET r == ExportVAPIDPrivateKeyPEM(stores[s]) IN
        last' = [op |-> "ExportVAPIDPrivateKeyPEM", slot |-> s, out |-> r.out, err |-> r.err]
    /\ UNCHANGED << stores, main >>

\* stores[s].PrivateKey()
GetPrivateKey(s) ==
    /\ last.op = "idle"
    /\ Constructed(stores[s])
    /\ last' = [op |-> "PrivateKey", slot |-> s, out |-> PrivateKey(stores[s]), err |-> ""]
    /\ UNCHANGED << stores, main >>

\* stores[s].PublicKeyString()
GetPublicKeyString(s) ==
    /\ last.op = "idle"
    /\ last' = [op |-> "PublicKeyString", slot |-> s, out |-> PublicKeyString(stores[s]),
                err |-> ""]
    /\ UNCHANGED << stores, main >>

\* stores[a].Equal(stores[b]), both constructed (a nil private key panics)
CallEqual(a, b) ==
    /\ last.op = "idle"
    /\ Constructed(stores[a]) /\ Constructed(stores[b])
    /\ last' = [op |-> "Equal", slot |-> a, other |-> b,
                result |-> Equal(stores[a], stores[b]), err |-> ""]
    /\ UNCHANGED << stores, main >>

\* getVAPIDAuthorizationHeader(endpoint, subscriber, stores[s], expiration)
GetHeader(s, endpoint, subscriber, expiration, now, signOK) ==
    /\ last.op = "idle"
    /\ Constructed(stores[s])
    /\ LET r == getVAPIDAuthorizationHeader(endpoint, subscriber, stores[s], expiration,
                                            now, signOK) IN
        last' = [op |-> "getVAPIDAuthorizationHeader", slot |-> s, endpoint |-> endpoint,
                 subscriber |-> subscriber, expiration |-> expiration, now |-> now,
                 err |-> r.err, header |-> r.header]
    /\ UNCHANGED << stores, main >>

\* the caller is done with what the call returned
Done ==
    /\ last.op # "idle"
    /\ last' = Idle
    /\ UNCHANGED << stores, main >>

Next ==
    \/ \E s \in Slots, randOK \in BOOLEAN, d \in GenScalars : Generate(s, randOK, d)
    \/ \E s \in Slots, doc \in DocsOffered : Unmarshal(s, doc)
    \/ \E s \in Slots, pemBytes \in PEMsOffered : Load(s, pemBytes)
    \/ \E s \in Slots, privKey \in KeysOffered : FromECDSA(s, privKey)
    \/ \E s \in Slots : Marshal(s)
    \/ \E s \in Slots : Export(s)
    \/ \E s \in Slots : GetPrivateKey(s)
    \/ \E s \in Slots : GetPublicKeyString(s)
    \/ \E a, b \in Slots : CallEqual(a, b)
    \/ \E s \in Slots, endpoint \in SampleEndpoints, subscriber \in SampleSubscribers,
          expiration \in { ZeroTime, UnixTime(0) }, signOK \in BOOLEAN :
            GetHeader(s, endpoint, subscriber, expiration, UnixTime(1000), signOK)
    \/ Done

Spec == Init /\ [][Next]_vars

\* the header builder on its own: one key store, every endpoint and subscriber
HeaderInit ==
    /\ \E k \in { GenerateVAPIDKeys(TRUE, << 1, 0 >>).result,
                  LoadVAPIDPrivateKeyPEM(PEMBlock(ECKeyDER("P-256", OrderMinus1))).result,
                  UnmarshalJSON(NoKeys, JSONObject(Absent, Member(EncodeToString(OrderPlus1)))).keys } :
           stores = [s \in Slots |-> IF s = 1 THEN k ELSE NoKeys]
    /\ last = Idle
    /\ main = NotRunning

HeaderNext ==
    \/ \E endpoint \in Endpoints, subscriber \in Subscribers, expiration \in Expirations,
          now \in NowTimes, signOK \in BOOLEAN :
            GetHeader(1, endpoint, subscriber, expiration, now, signOK)
    \/ Done

HeaderSpec == HeaderInit /\ [][HeaderNext]_vars

-----------------------------------------------------------------------------
(* The example program: key setup and the call of SendNotification.  A nil  *)
(* *VAPIDKeys is NoKeys: main never holds a pointer to a zero value.        *)

\* a key file: missing or unreadable, or its content
NoPEMFile == [exists |-> FALSE, data |-> NotPEM]
PEMFile(pemBytes) == [exists |-> TRUE, data |-> pemBytes]
NoJSONFile == [exists |-> FALSE, data |-> BadJSON]
JSONFile(doc) == [exists |-> TRUE, data |-> doc]

LoadVAPIDKeysPEM(file) ==
    IF ~file.exists THEN [err |-> "open", result |-> NoKeys]
    ELSE LoadVAPIDPrivateKeyPEM(file.data)

LoadVAPIDKeysJSON(file) ==
    IF ~file.exists THEN [err |-> "open", result |-> NoKeys]
    ELSE LET r == UnmarshalJSON(NoKeys, file.data)
         IN  IF r.err # "" THEN [err |-> r.err, result |-> NoKeys]
             ELSE [err |-> "", result |-> r.keys]

\* writeOK: os.WriteFile succeeds; a failed write leaves the file as it was
SaveVAPIDKeysPEM(file, keys, writeOK) ==
    IF ~Constructed(keys) THEN [err |-> "vapid keys are nil", file |-> file]
    ELSE LET pem == ExportVAPIDPrivateKeyPEM(keys)
         IN  IF pem.err # "" THEN [err |-> pem.err, file |-> file]
             ELSE IF ~writeOK THEN [err |-> "write", file |-> file]
             ELSE [err |-> "", file |-> PEMFile(pem.out)]

SaveVAPIDKeysJSON(file, keys, writeOK) ==
    IF ~Constructed(keys) THEN [err |-> "vapid keys are nil", file |-> file]
    ELSE LET j == MarshalJSON(keys)
         IN  IF j.err # "" THEN [err |-> j.err, file |-> file]
             ELSE IF ~writeOK THEN [err |-> "write", file |-> file]
             ELSE [err |-> "", file |-> JSONFile(j.out)]

\* json.Marshal of a *VAPIDKeys: "null" for a nil pointer, without calling
\* MarshalJSON
JSONNull == [null |-> TRUE, doc |-> BadJSON]
MarshalPointer(keys) ==
    IF ~Constructed(keys) THEN [err |-> "", out |-> JSONNull]
    ELSE LET j == MarshalJSON(keys)
         IN  [err |-> j.err, out |-> [null |-> FALSE, doc |-> j.out]]

\* the Options of a call of SendNotification; NoOptions before the call
NoOptions == [Subscriber |-> "", VAPIDKeys |-> NoKeys, TTL |-> 0]
Options(vapidKeys) == [Subscriber |-> "example@example.com", VAPIDKeys |-> vapidKeys, TTL |-> 30]

\* the key files main may find: none, one that is no key, one a run of this
\* program has saved
SavedKeys == { GenerateVAPIDKeys(TRUE, d).result : d \in GenScalars }
PEMFiles ==
    { NoPEMFile, PEMFile(NotPEM), PEMFile(PEMBlock(OtherKeyDER("RSA"))) }
    \cup { PEMFile(ExportVAPIDPrivateKeyPEM(k).out) : k \in SavedKeys }
JSONFiles ==
    { NoJSONFile, JSONFile(BadJSON),
      JSONFile(JSONObject(Absent, Member(EncodeToString(FillBytes(<< 1 >>, KeySize))))) }
    \cup { JSONFile(MarshalJSON(k).out) : k \in SavedKeys }

MainInit ==
    /\ stores = [s \in Slots |-> NoKeys]
    /\ last = Idle
    /\ \E pemFile \in PEMFiles, jsonFile \in JSONFiles :
        main = [pc |-> "LoadVAPIDKeysPEM", pem |-> pemFile, json |-> jsonFile,
                vk1 |-> NoKeys, vk2 |-> NoKeys, vapidKeys |-> NoKeys, logged |-> "",
                keysJson |-> JSONNull, options |-> NoOptions]

\* line 296: vk1, err := LoadVAPIDKeysPEM("vapid_private.pem"); err is only logged
MainLoadPEM ==
    /\ main.pc = "LoadVAPIDKeysPEM"
    /\ main' = [main EXCEPT !.vk1 = LoadVAPIDKeysPEM(main.pem).result,
                            !.pc = "LoadVAPIDKeysJSON"]
    /\ UNCHANGED << stores, last >>

\* line 300: vk2, err := LoadVAPIDKeysJSON("vapid_keys.json"); err is only logged
MainLoadJSON ==
    /\ main.pc = "LoadVAPIDKeysJSON"
    /\ main' = [main EXCEPT !.vk2 = LoadVAPIDKeysJSON(main.json).result,
                            !.pc = "choose"]
    /\ UNCHANGED << stores, last >>

\* lines 305-308: var vapidKeys; both loaded and Equal: two log lines, nothing else
MainUseLoaded ==
    /\ main.pc = "choose"
    /\ Constructed(main.vk1) /\ Constructed(main.vk2) /\ Equal(main.vk1, main.vk2)
    /\ main' = [main EXCEPT !.logged = "Using loaded keys", !.pc = "json.Marshal"]
    /\ UNCHANGED << stores, last >>

\* lines 309-312: otherwise vapidKeys, err = GenerateVAPIDKeys(); err is overwritten
MainGenerate(randOK, d) ==
    /\ main.pc = "choose"
    /\ ~(Constructed(main.vk1) /\ Constructed(main.vk2) /\ Equal(main.vk1, main.vk2))
    /\ main' = [main EXCEPT !.logged = "Generating new VAPID keys",
                            !.vapidKeys = GenerateVAPIDKeys(randOK, d).result,
                            !.pc = "SaveVAPIDKeysPEM"]
    /\ UNCHANGED << stores, last >>

\* lines 313-316: err = SaveVAPIDKeysPEM(...); log.Fatal on error
MainSavePEM(writeOK) ==
    /\ main.pc = "SaveVAPIDKeysPEM"
    /\ LET r == SaveVAPIDKeysPEM(main.pem, main.vapidKeys, writeOK) IN
        main' = [main EXCEPT !.pem = r.file,
                             !.pc = IF r.err # "" THEN "fatal" ELSE "SaveVAPIDKeysJSON"]
    /\ UNCHANGED << stores, last >>

\* lines 317-320: err = SaveVAPIDKeysJSON(...); log.Fatal on error
MainSaveJSON(writeOK) ==
    /\ main.pc = "SaveVAPIDKeysJSON"
    /\ LET r == SaveVAPIDKeysJSON(main.json, main.vapidKeys, writeOK) IN
        main' = [main EXCEPT !.json = r.file,
                             !.pc = IF r.err # "" THEN "fatal" ELSE "json.Marshal"]
    /\ UNCHANGED << stores, last >>

\* lines 321-325: keysJson, err := json.Marshal(vapidKeys); log.Fatal on error
MainMarshal ==
    /\ main.pc = "json.Marshal"
    /\ LET r == MarshalPointer(main.vapidKeys) IN
        main' = [main EXCEPT !.keysJson = r.out,
                             !.pc = IF r.err # "" THEN "fatal" ELSE "read subscription"]
    /\ UNCHANGED << stores, last >>

\* lines 326-380: a subscription is parsed from standard input, or log.Fatal
MainReadSubscription(parsed) ==
    /\ main.pc = "read subscription"
    /\ main' = [main EXCEPT !.pc = IF parsed THEN "SendNotification" ELSE "fatal"]
    /\ UNCHANGED << stores, last >>

\* lines 383-398: SendNotification(ctx, "Test", sub, &Options{...}); log.Fatal on error
MainSendNotification(sendOK) ==
    /\ main.pc = "SendNotification"
    /\ main' = [main EXCEPT !.options = Options(main.vapidKeys),
                            !.pc = IF sendOK THEN "exit" ELSE "fatal"]
    /\ UNCHANGED << stores, last >>

MainNext ==
    \/ MainLoadPEM
    \/ MainLoadJSON
    \/ MainUseLoaded
    \/ \E randOK \in BOOLEAN, d \in GenScalars : MainGenerate(randOK, d)
    \/ \E writeOK \in BOOLEAN : MainSavePEM(writeOK)
    \/ \E writeOK \in BOOLEAN : MainSaveJSON(writeOK)
    \/ MainMarshal
    \/ \E parsed \in BOOLEAN : MainReadSubscription(parsed)
    \/ \E sendOK \in BOOLEAN : MainSendNotification(sendOK)

MainSpec == MainInit /\ [][MainNext]_vars


-----------------------------------------------------------------------------
(* Properties *)

\* the key store has a private scalar in the range 0 < d < n
HasValidScalar(v) == Constructed(v) /\ ValidScalar("P-256", v.privateKey.D)

\* the decoded privateKey of the document of the last UnmarshalJSON call
LastPrivBytes == DecodeString(FieldOf(last.doc.privateKey))

\* the last call was UnmarshalJSON of a document whose privateKey decodes
LastDecoded ==
    /\ last.op = "UnmarshalJSON"
    /\ last.doc.valid
    /\ FieldOf(last.doc.privateKey) # << >>
    /\ LastPrivBytes.ok

\* ... and decodes to the 32 bytes of a scalar 0 < d < n
LastValidPrivateKey ==
    /\ LastDecoded
    /\ Len(LastPrivBytes.bytes) = KeySize
    /\ ValidScalar("P-256", SetBytes(LastPrivBytes.bytes))

\* the public key string recomputed from that scalar
LastRecomputed == PublicKeyOf(SetBytes(LastPrivBytes.bytes))

\* C1: a key store with a valid P-256 scalar (every generated one, also one
\* whose scalar has leading zero bytes) comes back from MarshalJSON followed by
\* UnmarshalJSON, and from ExportVAPIDPrivateKeyPEM followed by
\* LoadVAPIDPrivateKeyPEM, without error, Equal to the original and with the
\* same public key string.
RoundTripPreservesKeys ==
    (/\ last.op \in { "UnmarshalJSON", "LoadVAPIDPrivateKeyPEM" }
     /\ last.src # 0
     /\ HasValidScalar(stores[last.src]))
    => /\ last.err = ""
       /\ Constructed(stores[last.slot])
       /\ Equal(stores[last.src], stores[last.slot])
       /\ PublicKeyString(stores[last.src]) = PublicKeyString(stores[last.slot])

\* C1 witness: the JSON form of a key whose scalar has leading zero bytes has
\* been read back into another key store.
RoundTripDone ==
    /\ last.op = "UnmarshalJSON"
    /\ last.src # 0
    /\ last.src # last.slot
    /\ Len(stores[last.src].privateKey.D) < KeySize
    /\ last.err = ""
    /\ Equal(stores[last.src], stores[last.slot])

WrongLengthRejected ==
    (LastDecoded /\ Len(LastPrivBytes.bytes) # KeySize)
        => /\ last.err = "invalid privateKey length"
           /\ stores[last.slot] = last.before

\* C3 witness: a 31-byte scalar has been refused.
ShortScalarRefused ==
    /\ LastDecoded
    /\ Len(LastPrivBytes.bytes) = KeySize - 1
    /\ last.err = "invalid privateKey length"
    /\ last.before = NoKeys
    /\ stores[last.slot] = NoKeys

\* the PEM input holds a PKCS#8 elliptic-curve key on P-256
IsP256KeyPEM(pemBytes) ==
    pemBytes.block /\ pemBytes.der.alg = "EC" /\ pemBytes.der.curve = "P-256"

\* C4: LoadVAPIDPrivateKeyPEM of input that is not a PEM block holding an
\* elliptic-curve key on P-256 (no PEM, malformed DER, an RSA key, a P-384
\* key), and ECDSAToVAPIDKeys of a key on another curve, return an error and
\* no key store.
OnlyP256KeysAccepted ==
    /\ (last.op = "LoadVAPIDPrivateKeyPEM" /\ ~IsP256KeyPEM(last.pem))
          => (last.err # "" /\ stores[last.slot] = NoKeys)
    /\ (last.op = "ECDSAToVAPIDKeys" /\ last.key.Curve # "P-256")
          => (last.err # "" /\ stores[last.slot] = NoKeys)

\* C4 witness: a P-384 key in PKCS#8 PEM has been refused.
P384KeyRefused ==
    /\ last.op = "LoadVAPIDPrivateKeyPEM"
    /\ last.pem.block
    /\ last.pem.der.alg = "EC"
    /\ last.pem.der.curve = "P-384"
    /\ last.err # ""
    /\ stores[last.slot] = NoKeys

\* C5 as stated: every constructed key store has a private scalar d with
\* 0 < d < n and caches the encoding of the point d.G as its public key string.
ScalarInRangeAndPublicKeyDerived ==
    \A s \in Slots :
        Constructed(stores[s]) =>
            /\ ValidScalar("P-256", stores[s].privateKey.D)
            /\ stores[s].publicKey = PublicKeyOf(stores[s].privateKey.D)

\* C6: Equal returns true exactly when the two private scalars are the same
\* number.
EqualIffSameScalar ==
    last.op = "Equal" =>
        (last.result <=> stores[last.slot].privateKey.D = stores[last.other].privateKey.D)

\* C6 witness: Equal has answered true for two distinct key store objects.
EqualOnTwoStores ==
    /\ last.op = "Equal"
    /\ last.slot # last.other
    /\ last.result

\* C7 as stated: no operation changes a constructed key store.
ConstructedNeverChanges ==
    [][ \A s \in Slots : Constructed(stores[s]) => stores'[s] = stores[s] ]_vars

\* C7 amended: a constructed key store changes only by a call of its own
\* UnmarshalJSON that returns no error; every other operation, and an
\* UnmarshalJSON that fails, leaves its private scalar and cached public key
\* as they were.
OnlySuccessfulUnmarshalChanges ==
    [][ \A s \in Slots :
          (/\ Constructed(stores[s])
           /\ ~(last'.op = "UnmarshalJSON" /\ last'.slot = s /\ last'.err = ""))
          => stores'[s] = stores[s] ]_vars

\* C7 witness: UnmarshalJSON has failed on a constructed key store.
FailedUnmarshalOnConstructed ==
    /\ last.op = "UnmarshalJSON"
    /\ last.err # ""
    /\ Constructed(stores[last.slot])

\* the last call returned a header
HeaderReturned == last.op = "getVAPIDAuthorizationHeader" /\ last.err = ""

\* C8: in a returned header, k is the key store's cached public key string and
\* the token is signed with the key store's private scalar, so it verifies
\* under the point k encodes.
TokenVerifiesUnderK ==
    HeaderReturned =>
        LET h == last.header
            keys == stores[last.slot]
            point == DecodeString(h.k)
        IN  /\ h.k = PublicKeyString(keys)
            /\ h.t.signature.by = OrdReduce("P-256", keys.privateKey.D)
            /\ point.ok
            /\ Verifies(h.t, PointOf(point.bytes))

\* C8 witness: a header has been returned.
HeaderBuilt == HeaderReturned /\ last.header.scheme = "vapid"

\* C9 as stated: a header is returned only for an endpoint with a scheme and a
\* host.
HeaderOnlyForAbsoluteURI ==
    HeaderReturned =>
        /\ Parse(last.endpoint).Scheme # << >>
        /\ Parse(last.endpoint).Host # << >>

\* C10: the sub claim is "mailto:" + subscriber unless the subscriber begins
\* with "https:" or "mailto:", and then it is the subscriber; it always begins
\* with one of the two, and normalizing it again changes nothing.
SubClaimNormalized ==
    HeaderReturned =>
        LET sub == last.header.t.token.claims.sub
            given == last.subscriber
        IN  /\ (~HasPrefix(given, https) /\ ~HasPrefix(given, mailto)) => sub = mailto \o given
            /\ (HasPrefix(given, https) \/ HasPrefix(given, mailto)) => sub = given
            /\ HasPrefix(sub, https) \/ HasPrefix(sub, mailto)
            /\ NormalizeSubscriber(sub) = sub

\* C10 witness: a bare e-mail address has been given the mailto: prefix.
BareAddressPrefixed ==
    /\ HeaderReturned
    /\ ~HasPrefix(last.subscriber, https)
    /\ ~HasPrefix(last.subscriber, mailto)
    /\ last.header.t.token.claims.sub = mailto \o last.subscriber

\* RFC 3986, appendix B: the index of the first of the characters in cs in s,
\* or Len(s) + 1 when s has none of them
FirstOf(s, cs) ==
    IF \E i \in 1..Len(s) : s[i] \in cs
    THEN CHOOSE i \in 1..Len(s) : s[i] \in cs /\ \A j \in 1..(i - 1) : s[j] \notin cs
    ELSE Len(s) + 1

\* RFC 3986, appendix B: the text of a URI reference split into "scheme:",
\* "//authority", path, "?query" and "#fragment", each empty when not there
SplitURI(s) ==
    LET c == FirstOf(s, { ":", "/", "?", "#" })
        hasScheme == c > 1 /\ c <= Len(s) /\ s[c] = ":"
        scheme == IF hasScheme THEN SubSeq(s, 1, c) ELSE << >>
        r1 == SubSeq(s, Len(scheme) + 1, Len(s))
        hasAuthority == Len(r1) >= 2 /\ r1[1] = "/" /\ r1[2] = "/"
        a == FirstOf(SubSeq(r1, 3, Len(r1)), { "/", "?", "#" })
        authority == IF hasAuthority THEN SubSeq(r1, 1, a + 1) ELSE << >>
        r2 == SubSeq(r1, Len(authority) + 1, Len(r1))
        path == SubSeq(r2, 1, FirstOf(r2, { "?", "#" }) - 1)
        r3 == SubSeq(r2, Len(path) + 1, Len(r2))
        query == SubSeq(r3, 1, FirstOf(r3, { "#" }) - 1)
    IN  [scheme |-> scheme, authority |-> authority, path |-> path, query |-> query,
         fragment |-> SubSeq(r3, Len(query) + 1, Len(r3))]

\* the endpoint without its path and query: every endpoint that differs from
\* it only in path or query has the same one
WithoutPathAndQuery(endpoint) ==
    LET u == SplitURI(endpoint) IN u.scheme \o u.authority \o u.fragment

\* C11: for an endpoint that parses, the aud claim is the scheme, "://" and
\* the host of the parsed endpoint, and it is the aud of the endpoint without
\* its path and query, so endpoints that differ only there have the same aud.
AudIsSchemeAndHost ==
    HeaderReturned =>
        LET aud == last.header.t.token.claims.aud
            subURL == Parse(last.endpoint)
            origin == Parse(WithoutPathAndQuery(last.endpoint))
        IN  /\ aud = subURL.Scheme \o << ":", "/", "/" >> \o subURL.Host
            /\ origin.err = ""
            /\ aud = origin.Scheme \o << ":", "/", "/" >> \o origin.Host
            /\ Count(aud, "?") = 0

\* C11 witness: a header for an endpoint with a host, a path and a query.
AudWithoutPathAndQuery ==
    /\ HeaderReturned
    /\ Parse(last.endpoint).Host # << >>
    /\ SplitURI(last.endpoint).path # << >>
    /\ SplitURI(last.endpoint).query # << >>
    /\ last.header.t.token.claims.aud
         = Parse(WithoutPathAndQuery(last.endpoint)).Scheme \o << ":", "/", "/" >>
             \o Parse(WithoutPathAndQuery(last.endpoint)).Host

\* C12: the exp claim is the Unix seconds of now + 12 hours when the
\* expiration given is the zero time, and the Unix seconds of the expiration
\* given, whatever they are (past, or more than 24 hours ahead), when it is not.
ExpIsDefaultOrGiven ==
    HeaderReturned =>
        LET exp == last.header.t.token.claims.exp IN
            /\ last.expiration = ZeroTime => exp = last.now.unix + 12 * 3600
            /\ last.expiration # ZeroTime => exp = last.expiration.unix

\* C12 witness: a header with the default expiration ...
ExpDefaulted ==
    /\ HeaderReturned
    /\ last.expiration = ZeroTime
    /\ last.header.t.token.claims.exp = last.now.unix + 12 * 3600

\* ... one with an expiration in the past and one with an expiration more than
\* 24 hours ahead, both kept as given
ExpInThePastKept ==
    /\ HeaderReturned
    /\ last.expiration # ZeroTime
    /\ last.expiration.unix < last.now.unix
    /\ last.header.t.token.claims.exp = last.expiration.unix

ExpFarAheadKept ==
    /\ HeaderReturned
    /\ last.expiration # ZeroTime
    /\ last.expiration.unix > last.now.unix + 24 * 3600
    /\ last.header.t.token.claims.exp = last.expiration.unix

\* SendNotification has been called by the example program
SendNotificationCalled == main.pc \in { "exit", "fatal" } /\ main.options # NoOptions

\* C13 as stated: the key store passed to SendNotification is constructed; it
\* is the loaded one when both key files loaded and are Equal, and otherwise a
\* generated one that both files hold.
PassedKeyStoreIsConstructed ==
    SendNotificationCalled =>
        LET passed == main.options.VAPIDKeys IN
            /\ Constructed(passed)
            /\ main.logged = "Using loaded keys" => passed = main.vk1 /\ Equal(passed, main.vk2)
            /\ main.logged # "Using loaded keys" =>
                    /\ LoadVAPIDKeysPEM(main.pem).result = passed
                    /\ Equal(LoadVAPIDKeysJSON(main.json).result, passed)

\* what does hold: on the generating branch the key store passed is
\* constructed and both files hold it
GeneratedKeyStoreIsSaved ==
    (SendNotificationCalled /\ main.logged = "Generating new VAPID keys") =>
        LET passed == main.options.VAPIDKeys IN
            /\ Constructed(passed)
            /\ LoadVAPIDKeysPEM(main.pem).result = passed
            /\ Equal(LoadVAPIDKeysJSON(main.json).result, passed)

\* ... and on the other branch nil is passed
LoadedKeyStoreIsDropped ==
    (SendNotificationCalled /\ main.logged = "Using loaded keys") =>
        /\ main.options.VAPIDKeys = NoKeys
        /\ Constructed(main.vk1)

=============================================================================
